---------------------------- MODULE Spec2Model ----------------------------
(***************************************************************************)
(* Model of src/src/MobileAnalyticsClient.js: the event queue, the batch   *)
(* generator, the batch store, the submission gate of submitEvents, the    *)
(* auto-submit timer and the putEvents response handler.                   *)
(*                                                                         *)
(* JavaScript runs every handler to completion on one thread, so each      *)
(* public call, timer firing and response is one action.  A value that is  *)
(* `undefined` in the program is written 0 where the program holds a       *)
(* number or a batch id (ids and timestamps of the model are positive).    *)
(***************************************************************************)
EXTENDS Integers, Sequences, FiniteSets, Bags, TLC

(***************************************************************************)
(* Bounds of the model.                                                    *)
(***************************************************************************)
MaxEvents == 2      \* recordEvent calls that queue an event
MaxTicks == 2       \* advances of the clock

(***************************************************************************)
(* Program constants.                                                      *)
(***************************************************************************)
batchSizeLimit == 256000
HardCap == 512000
MinSubmitGap == 1000
autoSubmitInterval == 10000
ThrottleWindow == 600     \* 60000 ms, in units of 100 ms
MaxCount == 40
MaxNameLen == 50
MaxValueLen == 200

StartTime == 100000                  \* Util.timestamp() at construction
TickSteps == {500, 60000}            \* ms, all multiples of 100
RandDen == 100                       \* Math.random() is u / RandDen
Draws == {0, 50}

Undefined == 0

(***************************************************************************)
(* Events as recordEvent receives them.  eventType is [str, len]; an       *)
(* attribute is [nameLen, valLen]; a metric is [nameLen, num].             *)
(***************************************************************************)
Attrs(n, nameLen, valLen) == [i \in 1..n |-> [nameLen |-> nameLen, valLen |-> valLen]]

Input(str, len, attributes, metrics) ==
    [eventType |-> [str |-> str, len |-> len], attributes |-> attributes, metrics |-> metrics]

\* The event createEvent builds from its arguments: version is always v2.0.
NewEvent(input) ==
    [eventType |-> input.eventType, version |-> "v2.0",
     attributes |-> input.attributes, metrics |-> input.metrics]

Small == Input(TRUE, 100000, Attrs(1, 3, 200), <<[nameLen |-> 50, num |-> TRUE]>>)
Big == Input(TRUE, 300000, <<>>, <<>>)
Huge == Input(TRUE, 600000, <<>>, <<>>)
BadType == Input(FALSE, 8, <<>>, <<>>)
BadMetric == Input(TRUE, 8, <<>>, <<[nameLen |-> 3, num |-> FALSE]>>)
TooMany == Input(TRUE, 8, Attrs(41, 3, 1), <<>>)
BadName == Input(TRUE, 8, Attrs(1, 0, 1), <<>>)
LongValue == Input(TRUE, 8, Attrs(1, 3, 201), <<>>)

ValidInputs == {Small, Big, Huge}
InvalidInputs == {BadType, BadMetric, TooMany, BadName, LongValue}
Inputs == ValidInputs \cup InvalidInputs

\* The inputs the application records with: every valid one, and an invalid
\* one for the first and for the last check of validateEvent it can fail.
RecordedInputs == ValidInputs \cup {BadType, LongValue}

AttrBytes(a) == a.nameLen + a.valLen + 6
MetricBytes(m) == m.nameLen + 4

RECURSIVE AttrsBytes(_)
AttrsBytes(s) == IF s = <<>> THEN 0 ELSE AttrBytes(Head(s)) + AttrsBytes(Tail(s))

RECURSIVE MetricsBytes(_)
MetricsBytes(s) == IF s = <<>> THEN 0 ELSE MetricBytes(Head(s)) + MetricsBytes(Tail(s))

\* Serialized size of one event: its fixed fields plus its variable parts.
EventBytes(e) ==
    120 + e.eventType.len + AttrsBytes(e.attributes) + MetricsBytes(e.metrics)

RECURSIVE SumBytes(_)
SumBytes(evs) == IF evs = <<>> THEN 0 ELSE Head(evs).size + SumBytes(Tail(evs))

\* Util.getRequestBodySize: the size of the JSON array of the events.
getRequestBodySize(evs) ==
    2 + SumBytes(evs) + (IF Len(evs) > 1 THEN Len(evs) - 1 ELSE 0)

(***************************************************************************)
(* validateEvent.  The helper validationError is a plain function that     *)
(* reads this.logger; class code is strict, so `this` is undefined there   *)
(* and the read throws a TypeError before anything is logged.              *)
(***************************************************************************)
customNameErrorFilter(nameLen) == IF nameLen = 0 THEN TRUE ELSE nameLen > MaxNameLen

customAttrValueErrorFilter(a) == a.valLen > 0 /\ a.valLen > MaxValueLen

NotNumber(m) == ~m.num
AttrNameBad(a) == customNameErrorFilter(a.nameLen)
MetricNameBad(m) == customNameErrorFilter(m.nameLen)

validationError(errorMsg) == [outcome |-> "throw", msg |-> errorMsg, logged |-> FALSE]

validateEvent(event) ==
    IF event.version # "v2.0"
    THEN validationError("Event must have version v2.0")
    ELSE IF ~event.eventType.str
    THEN validationError("Event Type must be a string")
    ELSE IF Len(SelectSeq(event.metrics, NotNumber)) > 0
    THEN validationError("Event Metrics must be numeric")
    ELSE IF Len(event.metrics) + Len(event.attributes) > MaxCount
    THEN validationError("Event Metric and Attribute Count cannot exceed 40")
    ELSE IF Len(SelectSeq(event.attributes, AttrNameBad)) > 0
    THEN validationError("Event Attribute names must be 1-50 characters")
    ELSE IF Len(SelectSeq(event.metrics, MetricNameBad)) > 0
    THEN validationError("Event Metric names must be 1-50 characters")
    ELSE IF Len(SelectSeq(event.attributes, customAttrValueErrorFilter)) > 0
    THEN validationError("Event Attribute values cannot be longer than 200 characters")
    ELSE [outcome |-> "event", msg |-> "", logged |-> FALSE]

\* createEvent builds the event and returns validateEvent's result.
createEvent(input) == validateEvent(NewEvent(input))

(***************************************************************************)
(* The state of the client.                                                *)
(*   outputs    this.outputs: events, batches, batchIndex, batchesInFlight *)
(*              (the set of its keys), isThrottled, lastSubmitTimestamp,   *)
(*              timeoutReference (the timeout armed last, named by the     *)
(*              time it is due; 0 before any was armed)                    *)
(*   storage    the persisted slots EVENTS, BATCHES and BATCH_INDEX        *)
(*   net        the putEvents requests awaiting their response, a bag of   *)
(*              the batch ids their handlers are bound to                  *)
(*   guid       the batch ids Util.GUID() has handed out                   *)
(*   timers     the timeouts setTimeout has armed and that have neither    *)
(*              fired nor been cleared, each named by the time it is due   *)
(*   options    this.options.autoSubmitEvents                              *)
(*   now        Util.timestamp()                                           *)
(*   hung       the thread is inside a loop of generateBatches that cannot *)
(*              end                                                        *)
(*   ret        what the last operation returned, logged, dispatched and   *)
(*              called back                                                *)
(*   recorded   number of events queued so far; ticks: clock advances      *)
(***************************************************************************)
VARIABLES outputs, storage, net, guid, timers, options, now, hung, ret, recorded, ticks

vars == <<outputs, storage, net, guid, timers, options, now, hung, ret, recorded, ticks>>

EmptyMap == <<>>

\* delete map[key]
DeleteKey(map, key) == [k \in DOMAIN map \ {key} |-> map[k]]

\* array.indexOf(x) !== -1
Contains(seq, x) == \E i \in 1..Len(seq) : seq[i] = x

IndexOf(seq, x) == CHOOSE i \in 1..Len(seq) : seq[i] = x /\ \A j \in 1..(i - 1) : seq[j] # x

\* array.splice(i, 1)
SpliceOne(seq, i) == SubSeq(seq, 1, i - 1) \o SubSeq(seq, i + 1, Len(seq))

(***************************************************************************)
(* The operations below take and return a context c: the client's state    *)
(* together with what the running handler has logged (log), dispatched     *)
(* (sent) and called back (called) so far.                                 *)
(***************************************************************************)
Ctx(o, st, n, g) ==
    [outputs |-> o, storage |-> st, net |-> n, guid |-> g, timers |-> {},
     hung |-> FALSE, log |-> <<>>, sent |-> <<>>, called |-> <<>>]

Context == [Ctx(outputs, storage, net, guid) EXCEPT !.timers = timers]

Log(c, msg) == [c EXCEPT !.log = Append(@, msg)]

\* Variant: batchIndex.unshift(batchId) instead of push.
persistBatch_Front(c, eventBatch) ==
    IF getRequestBodySize(eventBatch) < HardCap
    THEN LET batchId == c.guid + 1
             b == c.outputs.batches @@ (batchId :> eventBatch)
             ix == <<batchId>> \o c.outputs.batchIndex
         IN [c |-> [c EXCEPT !.guid = batchId,
                             !.outputs.batches = b,
                             !.storage.BATCHES = b,
                             !.outputs.batchIndex = ix,
                             !.storage.BATCH_INDEX = ix],
             ok |-> TRUE]
    ELSE [c |-> Log(c, "error: Events too large"), ok |-> FALSE]

persistBatch(c, eventBatch) ==
    IF getRequestBodySize(eventBatch) < HardCap
    THEN LET batchId == c.guid + 1
             b == c.outputs.batches @@ (batchId :> eventBatch)
             ix == Append(c.outputs.batchIndex, batchId)
         IN [c |-> [c EXCEPT !.guid = batchId,
                             !.outputs.batches = b,
                             !.storage.BATCHES = b,
                             !.outputs.batchIndex = ix,
                             !.storage.BATCH_INDEX = ix],
             ok |-> TRUE]
    ELSE [c |-> Log(c, "error: Events too large"), ok |-> FALSE]

\* Variant: generateBatches without its inner loop.
FindLastIndex_Whole(evs, lastIndex) == lastIndex

\* The inner loop of generateBatches: the prefix length the batch is cut at.
RECURSIVE FindLastIndex(_, _)
FindLastIndex(evs, lastIndex) ==
    IF lastIndex > 1 /\ getRequestBodySize(SubSeq(evs, 1, lastIndex)) > batchSizeLimit
    THEN FindLastIndex(evs, lastIndex - 1)
    ELSE lastIndex

\* The outer loop.  When persistBatch refuses the batch, nothing the loop
\* reads has changed, so every later iteration does the same: the loop
\* never ends and the result is a hung thread.
RECURSIVE generateBatches(_)
generateBatches(c) ==
    IF Len(c.outputs.events) = 0
    THEN c
    ELSE LET evs == c.outputs.events
             lastIndex == FindLastIndex(evs, Len(evs))
             p == persistBatch(c, SubSeq(evs, 1, lastIndex))
             rest == SubSeq(evs, lastIndex + 1, Len(evs))
         IN IF p.ok
            THEN generateBatches([p.c EXCEPT !.outputs.events = rest,
                                             !.storage.EVENTS = rest])
            ELSE [p.c EXCEPT !.hung = TRUE]

\* Variant: the handler reads options.batchId when the response arrives,
\* after the pass has set it to the last id of batchIndex.
submitBatchById_BindsLast(c, batchId) ==
    IF batchId = Undefined
    THEN [c |-> Log(c, "error: Invalid Options passed to submitBatchById"),
          ret |-> Undefined]
    ELSE [c |-> [c EXCEPT !.outputs.batchesInFlight = @ \cup {batchId},
                          !.net = @ (+) SetToBag({c.outputs.batchIndex[Len(c.outputs.batchIndex)]}),
                          !.sent = Append(@, batchId)],
          ret |-> batchId]

submitBatchById(c, batchId) ==
    IF batchId = Undefined
    THEN [c |-> Log(c, "error: Invalid Options passed to submitBatchById"),
          ret |-> Undefined]
    ELSE [c |-> [c EXCEPT !.outputs.batchesInFlight = @ \cup {batchId},
                          !.net = @ (+) SetToBag({batchId}),
                          !.sent = Append(@, batchId)],
          ret |-> batchId]

\* Variant: the pass ends after the first batch it reaches.
RECURSIVE SubmitEach_FirstOnly(_, _, _, _)
SubmitEach_FirstOnly(c, index, i, indices) ==
    IF i > Len(index) \/ Len(indices) > 0
    THEN [c |-> c, ret |-> indices]
    ELSE IF index[i] \notin c.outputs.batchesInFlight
         THEN LET r == submitBatchById(c, index[i])
              IN SubmitEach_FirstOnly(r.c, index, i + 1, Append(indices, r.ret))
         ELSE SubmitEach_FirstOnly(c, index, i + 1, indices)

\* Variant: the pass without its test of batchesInFlight.
RECURSIVE SubmitEach_Unchecked(_, _, _, _)
SubmitEach_Unchecked(c, index, i, indices) ==
    IF i > Len(index)
    THEN [c |-> c, ret |-> indices]
    ELSE LET r == submitBatchById(c, index[i])
         IN SubmitEach_Unchecked(r.c, index, i + 1, Append(indices, r.ret))

\* batchIndex.forEach of submitAllBatches, from position i on.
RECURSIVE SubmitEach(_, _, _, _)
SubmitEach(c, index, i, indices) ==
    IF i > Len(index)
    THEN [c |-> c, ret |-> indices]
    ELSE IF index[i] \notin c.outputs.batchesInFlight
         THEN LET r == submitBatchById(c, index[i])
              IN SubmitEach(r.c, index, i + 1, Append(indices, r.ret))
         ELSE SubmitEach(c, index, i + 1, indices)

submitAllBatches(c) == SubmitEach(c, c.outputs.batchIndex, 1, <<>>)

(***************************************************************************)
(* submitEvents.  u is the value Math.random() returns, as u / RandDen.    *)
(***************************************************************************)
\* Variant: a linear ramp instead of the quadratic one.
Suppressed_Linear(t, last, u) ==
    ((t - last) \div 100) * RandDen < u * ThrottleWindow

\* throttlingSuppressionFunction() < Math.random(), both sides multiplied by
\* RandDen * 60000^2 and the times taken in units of 100 ms.
Suppressed(t, last, u) ==
    ((t - last) \div 100) * ((t - last) \div 100) * RandDen < u * ThrottleWindow * ThrottleWindow

\* this.outputs.batches.length === 0: batches is a plain object, which has
\* no length, so the comparison is undefined === 0.
BatchesLengthIsZero(batches) == FALSE

\* Variant: the gate without its test of batchesInFlight.
Gate_IgnoresInFlight(c, t, u) ==
    IF c.outputs.isThrottled /\ Suppressed(t, c.outputs.lastSubmitTimestamp, u)
    THEN "Prevented submission while throttled"
    ELSE IF BatchesLengthIsZero(c.outputs.batches) /\ Len(c.outputs.events) = 0
    THEN "No batches or events to be submitted"
    ELSE IF c.outputs.lastSubmitTimestamp # Undefined
            /\ t - c.outputs.lastSubmitTimestamp < MinSubmitGap
    THEN "Prevented multiple submissions in under a second"
    ELSE ""

\* Variant: the gate without its test of lastSubmitTimestamp.
Gate_NoMinimumGap(c, t, u) ==
    IF c.outputs.isThrottled /\ Suppressed(t, c.outputs.lastSubmitTimestamp, u)
    THEN "Prevented submission while throttled"
    ELSE IF Cardinality(c.outputs.batchesInFlight) > 0
    THEN "Prevented submission while batches are in flight"
    ELSE IF BatchesLengthIsZero(c.outputs.batches) /\ Len(c.outputs.events) = 0
    THEN "No batches or events to be submitted"
    ELSE ""

Gate(c, t, u) ==
    IF c.outputs.isThrottled /\ Suppressed(t, c.outputs.lastSubmitTimestamp, u)
    THEN "Prevented submission while throttled"
    ELSE IF Cardinality(c.outputs.batchesInFlight) > 0
    THEN "Prevented submission while batches are in flight"
    ELSE IF BatchesLengthIsZero(c.outputs.batches) /\ Len(c.outputs.events) = 0
    THEN "No batches or events to be submitted"
    ELSE IF c.outputs.lastSubmitTimestamp # Undefined
            /\ t - c.outputs.lastSubmitTimestamp < MinSubmitGap
    THEN "Prevented multiple submissions in under a second"
    ELSE ""

\* Variant: setTimeout without the clearTimeout before it.
ArmTimer_NoClear(c, t) ==
    IF options.autoSubmitEvents
    THEN [c EXCEPT !.timers = @ \cup {t + autoSubmitInterval},
                   !.outputs.timeoutReference = t + autoSubmitInterval]
    ELSE c

\* clearTimeout(timeoutReference), then setTimeout(submitEvents, autoSubmitInterval).
ArmTimer(c, t) ==
    IF options.autoSubmitEvents
    THEN [c EXCEPT !.timers = (@ \ {c.outputs.timeoutReference}) \cup {t + autoSubmitInterval},
                   !.outputs.timeoutReference = t + autoSubmitInterval]
    ELSE c

FirstBatch(c) ==
    IF Len(c.outputs.batchIndex) = 0 THEN Undefined ELSE c.outputs.batchIndex[1]

\* Result: c, ret (the array returned), passed (the gate let the call through).
submitEvents(c, t, u) ==
    LET c1 == ArmTimer(c, t)
        warnMessage == Gate(c1, t, u)
        c2 == generateBatches(c1)
        c3 == [c2 EXCEPT !.outputs.lastSubmitTimestamp = t]
    IN IF warnMessage # ""
       THEN [c |-> Log(c1, warnMessage), ret |-> <<>>, passed |-> FALSE]
       ELSE IF c2.hung
       THEN [c |-> c2, ret |-> <<>>, passed |-> TRUE]
       ELSE IF c3.outputs.isThrottled
       THEN LET r == submitBatchById(Log(c3, "Is throttled submitting first batch"),
                                     FirstBatch(c3))
            IN [c |-> r.c, ret |-> <<r.ret>>, passed |-> TRUE]
       ELSE LET r == submitAllBatches(c3)
            IN [c |-> r.c, ret |-> r.ret, passed |-> TRUE]

(***************************************************************************)
(* The response handler handlePutEventsResponse(batchId, callback) returns. *)
(* err is [failed, statusCode, code]; statusCode 0 is an absent status.    *)
(***************************************************************************)
NON_RETRYABLE_EXCEPTIONS == {"BadRequestException", "SerializationException", "ValidationException"}

Codes == NON_RETRYABLE_EXCEPTIONS \cup {"ThrottlingException", "NetworkingError"}

Success == [failed |-> FALSE, statusCode |-> Undefined, code |-> ""]

Failure(statusCode, code) == [failed |-> TRUE, statusCode |-> statusCode, code |-> code]

\* Every code under status 400; without a status, a non-retryable code and
\* the throttling code; under status 500, the throttling code and another.
Responses ==
    {Success}
        \cup {Failure(400, code) : code \in Codes}
        \cup {Failure(Undefined, code) : code \in {"ValidationException", "ThrottlingException"}}
        \cup {Failure(500, code) : code \in {"ThrottlingException", "NetworkingError"}}

\* Variant: the batch is deleted from batches and its id left in batchIndex.
clearBatchById_KeepsIndex(c, batchId) ==
    IF Contains(c.outputs.batchIndex, batchId)
    THEN LET b == DeleteKey(c.outputs.batches, batchId)
         IN [c EXCEPT !.outputs.batches = b, !.storage.BATCHES = b]
    ELSE c

\* Variant: batchIndex.splice(0, 1), whatever the position of batchId.
clearBatchById_SplicesFirst(c, batchId) ==
    IF Contains(c.outputs.batchIndex, batchId)
    THEN LET b == DeleteKey(c.outputs.batches, batchId)
             ix == SpliceOne(c.outputs.batchIndex, 1)
         IN [c EXCEPT !.outputs.batches = b,
                      !.outputs.batchIndex = ix,
                      !.storage.BATCH_INDEX = ix,
                      !.storage.BATCHES = b]
    ELSE c

clearBatchById(c, batchId) ==
    IF Contains(c.outputs.batchIndex, batchId)
    THEN LET b == DeleteKey(c.outputs.batches, batchId)
             ix == SpliceOne(c.outputs.batchIndex, IndexOf(c.outputs.batchIndex, batchId))
         IN [c EXCEPT !.outputs.batches = b,
                      !.outputs.batchIndex = ix,
                      !.storage.BATCH_INDEX = ix,
                      !.storage.BATCHES = b]
    ELSE c

\* Variant: clearBatch is never reset.
ClearBatch_Always(err) == TRUE

\* clearBatch as the handler leaves it before `if (clearBatch)`.
ClearBatch(err) ==
    IF err.failed /\ err.statusCode \in {Undefined, 400}
                  /\ err.code \notin NON_RETRYABLE_EXCEPTIONS
    THEN FALSE
    ELSE TRUE

\* isThrottled as the handler leaves it.
ThrottledAfter(wasThrottled, err) ==
    IF err.failed
    THEN IF err.statusCode \in {Undefined, 400}
         THEN err.code = "ThrottlingException"
         ELSE wasThrottled
    ELSE FALSE

\* Variant: the handler without its flush.
handlePutEventsResponse_NoFlush(c, batchId, err) ==
    LET wasThrottled == c.outputs.isThrottled
        c2 == [c EXCEPT !.outputs.isThrottled = ThrottledAfter(wasThrottled, err)]
        c4 == IF ClearBatch(err) THEN clearBatchById(c2, batchId) ELSE c2
    IN [c4 EXCEPT !.outputs.batchesInFlight = @ \ {batchId},
                  !.called = Append(@, batchId)]

handlePutEventsResponse(c, batchId, err) ==
    LET wasThrottled == c.outputs.isThrottled
        c1 == IF err.failed THEN Log(c, "error: putEvents failed")
                            ELSE Log(c, "info: Events Submitted Successfully")
        c2 == [c1 EXCEPT !.outputs.isThrottled = ThrottledAfter(wasThrottled, err)]
        c3 == IF err.failed /\ err.statusCode \in {Undefined, 400} /\ c2.outputs.isThrottled
              THEN Log(c2, "Application is currently throttled") ELSE c2
        c4 == IF ClearBatch(err) THEN clearBatchById(c3, batchId) ELSE c3
        c5 == [c4 EXCEPT !.outputs.batchesInFlight = @ \ {batchId},
                         !.called = Append(@, batchId)]
    IN IF wasThrottled /\ ~c5.outputs.isThrottled
       THEN submitAllBatches(Log(c5, "Was throttled flushing remaining batches")).c
       ELSE c5

(***************************************************************************)
(* recordEvent.  Result: c and ret, where ret is "throw" (validateEvent    *)
(* threw), "null", "event" (with the id of the event returned) or          *)
(* "undefined" (outputs.events[index] no longer exists), and the result of *)
(* the submitEvents call it made, if any.                                  *)
(***************************************************************************)
\* Variant: unshift instead of push.
pushEvent_Front(c, event) ==
    LET evs == <<event>> \o c.outputs.events
    IN [c |-> [c EXCEPT !.outputs.events = evs, !.storage.EVENTS = evs],
        ret |-> Len(evs) - 1]

pushEvent(c, event) ==
    LET evs == Append(c.outputs.events, event)
    IN [c |-> [c EXCEPT !.outputs.events = evs, !.storage.EVENTS = evs],
        ret |-> Len(evs) - 1]

NoSubmit(c) == [c |-> c, ret |-> <<>>, passed |-> FALSE]

recordEvent(c, input, id, t, u) ==
    LET v == createEvent(input)
        event == [id |-> id, size |-> EventBytes(NewEvent(input))]
        p == pushEvent(c, event)
        index == p.ret
        submits == getRequestBodySize(p.c.outputs.events) >= batchSizeLimit
        s == IF submits THEN submitEvents(p.c, t, u) ELSE NoSubmit(p.c)
        evs == s.c.outputs.events
    IN IF v.outcome = "throw"
       THEN [c |-> c, ret |-> "throw", event |-> 0, submits |-> FALSE, s |-> NoSubmit(c)]
       ELSE IF v.outcome = "null"
       THEN [c |-> IF v.logged THEN Log(c, v.msg) ELSE c,
             ret |-> "null", event |-> 0, submits |-> FALSE, s |-> NoSubmit(c)]
       ELSE [c |-> s.c,
             ret |-> IF index + 1 <= Len(evs) THEN "event" ELSE "undefined",
             event |-> IF index + 1 <= Len(evs) THEN evs[index + 1].id ELSE 0,
             submits |-> submits, s |-> s]

(***************************************************************************)
(* initStorage: the state the constructor leaves, from the persisted slots.*)
(***************************************************************************)
EmptyStorage == [EVENTS |-> <<>>, BATCHES |-> EmptyMap, BATCH_INDEX |-> <<>>]

\* Variant: the queue is not read back from its slot.
LoadedOutputs_NoQueue(st) ==
    [events |-> <<>>, batches |-> st.BATCHES, batchIndex |-> st.BATCH_INDEX,
     batchesInFlight |-> {}, isThrottled |-> FALSE,
     lastSubmitTimestamp |-> Undefined, timeoutReference |-> 0]

LoadedOutputs(st) ==
    [events |-> st.EVENTS, batches |-> st.BATCHES, batchIndex |-> st.BATCH_INDEX,
     batchesInFlight |-> {}, isThrottled |-> FALSE,
     lastSubmitTimestamp |-> Undefined, timeoutReference |-> 0]

initStorage(st, g, t, autoSubmit) ==
    LET c == Ctx(LoadedOutputs(st), st, EmptyBag, g)
    IN IF autoSubmit THEN submitEvents(c, t, 0) ELSE NoSubmit(c)

(***************************************************************************)
(* What an operation leaves in ret.                                        *)
(***************************************************************************)
Ret(op, result, event, called, s, c) ==
    [op |-> op, result |-> result, event |-> event, valid |-> FALSE,
     submitCalled |-> called, passed |-> s.passed, ids |-> s.ret,
     log |-> c.log, sent |-> c.sent, callbacks |-> c.called,
     batchId |-> 0, statusCode |-> 0]

Quiet == [c |-> [log |-> <<>>, sent |-> <<>>, called |-> <<>>], ret |-> <<>>, passed |-> FALSE]

Install(c) ==
    /\ outputs' = c.outputs
    /\ storage' = c.storage
    /\ net' = c.net
    /\ guid' = c.guid
    /\ timers' = c.timers
    /\ hung' = c.hung

Init ==
    /\ options \in [autoSubmitEvents : BOOLEAN]
    /\ now = StartTime
    /\ recorded = 0
    /\ ticks = 0
    /\ LET r == initStorage(EmptyStorage, 0, StartTime, options.autoSubmitEvents)
       IN /\ outputs = r.c.outputs
          /\ storage = r.c.storage
          /\ net = r.c.net
          /\ guid = r.c.guid
          /\ timers = r.c.timers
          /\ hung = r.c.hung
          /\ ret = Ret("init", "", 0, options.autoSubmitEvents, r, r.c)

(***************************************************************************)
(* Actions.                                                                *)
(***************************************************************************)
\* Math.random() is evaluated only when isThrottled is set.
RandomDraws == IF outputs.isThrottled THEN Draws ELSE {0}

\* The application calls recordEvent; at most max events are queued.
RecordEventUpTo(max) ==
    /\ ~hung
    /\ \E input \in RecordedInputs, u \in RandomDraws :
         /\ input \in ValidInputs => recorded < max
         /\ \E r \in {recordEvent(Context, input, recorded + 1, now, u)} :
               /\ Install(r.c)
               /\ recorded' = IF r.ret = "throw" \/ r.ret = "null" THEN recorded ELSE recorded + 1
               /\ ret' = [Ret("recordEvent", r.ret, r.event, r.submits, r.s, r.c)
                          EXCEPT !.valid = input \in ValidInputs]
    /\ UNCHANGED <<options, now, ticks>>

RecordEvent == RecordEventUpTo(MaxEvents)

\* The application calls submitEvents.
SubmitEvents ==
    /\ ~hung
    /\ \E u \in RandomDraws :
         \E r \in {submitEvents(Context, now, u)} :
            /\ Install(r.c)
            /\ ret' = Ret("submitEvents", "", 0, TRUE, r, r.c)
    /\ UNCHANGED <<options, now, recorded, ticks>>

\* A pending timeout is due: it leaves the pending ones and calls submitEvents.
TimerFires ==
    /\ ~hung
    /\ \E due \in timers, u \in RandomDraws :
         /\ now >= due
         /\ \E r \in {submitEvents([Context EXCEPT !.timers = @ \ {due}], now, u)} :
            /\ Install(r.c)
            /\ ret' = Ret("timer", "", 0, TRUE, r, r.c)
    /\ UNCHANGED <<options, now, recorded, ticks>>

\* The response err of the pending putEvents request of batchId arrives.
Respond(batchId, err) ==
    /\ ~hung
    /\ batchId \in BagToSet(net)
    /\ \E c \in {handlePutEventsResponse(
                     [Context EXCEPT !.net = @ (-) SetToBag({batchId})], batchId, err)} :
           /\ Install(c)
           /\ ret' = [Ret("response", IF err.failed THEN err.code ELSE "success",
                          0, FALSE, NoSubmit(c), c)
                      EXCEPT !.batchId = batchId, !.statusCode = err.statusCode]
    /\ UNCHANGED <<options, now, recorded, ticks>>

\* The response of one putEvents request arrives.
Response == \E batchId \in BagToSet(net), err \in Responses : Respond(batchId, err)

\* Time passes.
Tick ==
    /\ ticks < MaxTicks
    /\ \E d \in TickSteps : now' = now + d
    /\ ticks' = ticks + 1
    /\ ret' = Ret("tick", "", 0, FALSE, Quiet, Quiet.c)
    /\ UNCHANGED <<outputs, storage, net, guid, timers, options, hung, recorded>>

\* One more iteration of the loop of generateBatches that cannot end.
Spin ==
    /\ hung
    /\ LET p == persistBatch(Context, SubSeq(outputs.events, 1,
                                  FindLastIndex(outputs.events, Len(outputs.events))))
       IN /\ ~p.ok
          /\ ret' = Ret("generateBatches", "", 0, FALSE, Quiet, p.c)
    /\ UNCHANGED <<outputs, storage, net, guid, timers, options, now, hung, recorded, ticks>>

\* The process is killed and started again: the constructor rebuilds the
\* state from the persisted slots; responses to the old process are lost.
Restart ==
    /\ \E r \in {initStorage(storage, guid, now, options.autoSubmitEvents)} :
          /\ Install(r.c)
          /\ ret' = Ret("restart", "", 0, options.autoSubmitEvents, r, r.c)
    /\ UNCHANGED <<options, now, recorded, ticks>>

Next ==
    \/ RecordEvent
    \/ SubmitEvents
    \/ TimerFires
    \/ Response
    \/ Tick
    \/ Spin
    \/ Restart

Spec == Init /\ [][Next]_vars

(***************************************************************************)
(* The client left running for ever, for what it does in the end.  The     *)
(* program reads the clock only to compare it with lastSubmitTimestamp and *)
(* with the time a timeout is due, so time passing is written as those     *)
(* times falling behind `now`; a time more than the throttle window behind *)
(* is kept at that distance, where every comparison of the program has the *)
(* result it has for any greater distance.  Time passes, a due timeout     *)
(* fires and a request is answered, unless the thread is stuck in a loop.  *)
(* No batch is left unanswered, so the process is not restarted.           *)
(***************************************************************************)
ElapseStep == autoSubmitInterval

Aged(t) ==
    IF t - ElapseStep < now - 100 * ThrottleWindow
    THEN now - 100 * ThrottleWindow
    ELSE t - ElapseStep

\* autoSubmitInterval ms pass.
Elapse ==
    /\ outputs' = [outputs EXCEPT
                     !.lastSubmitTimestamp = IF @ = Undefined THEN Undefined ELSE Aged(@),
                     !.timeoutReference = IF @ = 0 THEN 0 ELSE Aged(@)]
    /\ timers' = {Aged(due) : due \in timers}
    /\ ret' = Ret("tick", "", 0, FALSE, Quiet, Quiet.c)
    /\ UNCHANGED <<storage, net, guid, options, now, hung, recorded, ticks>>

BatchIds == 1..MaxEvents

\* What the endpoint answers: success, throttling, a server error.
LiveResponses ==
    {Success, Failure(400, "ThrottlingException"), Failure(500, "NetworkingError")}

Answer(batchId) == \E err \in LiveResponses : Respond(batchId, err)

LiveResponse == \E batchId \in BatchIds : Answer(batchId)

LiveInit == Init /\ options.autoSubmitEvents

LiveNext ==
    \/ RecordEvent
    \/ TimerFires
    \/ LiveResponse
    \/ Elapse
    \/ Spin

\* ENABLED TimerFires and ENABLED Answer(batchId), read off their guards.
TimerDue == ~hung /\ \E due \in timers : now >= due

Answerable(batchId) == ~hung /\ batchId \in BagToSet(net)

\* Weak fairness of TimerFires and of Answer(batchId), with the guards above
\* for ENABLED and the step told by what it leaves in ret.
FairTimer == []<>(~TimerDue) \/ []<><<ret'.op = "timer">>_vars

FairAnswer(batchId) ==
    []<>(~Answerable(batchId)) \/ []<><<ret'.op = "response" /\ ret'.batchId = batchId>>_vars

LiveSpec ==
    /\ LiveInit
    /\ [][LiveNext]_vars
    /\ WF_vars(Elapse)
    /\ FairTimer
    /\ \A b \in BatchIds : FairAnswer(b)

(***************************************************************************)
(* validateEvent on its own: it is called once with an event drawn from    *)
(* EventsToValidate, which has an event on each side of every limit.  ret  *)
(* holds the call, then its outcome; the client is not involved.           *)
(***************************************************************************)
EventsToValidate ==
    [version : {"v2.0", "v1.0"},
     eventType : {[str |-> TRUE, len |-> 8], [str |-> FALSE, len |-> 8]},
     attributes : {<<>>} \cup {Attrs(n, nameLen, valLen) :
                                  n \in {1, MaxCount - 1, MaxCount, MaxCount + 1},
                                  nameLen \in {0, 1, MaxNameLen, MaxNameLen + 1},
                                  valLen \in {0, MaxValueLen, MaxValueLen + 1}},
     metrics : {<<>>} \cup {<<[nameLen |-> nameLen, num |-> num]>> :
                               nameLen \in {0, 1, MaxNameLen, MaxNameLen + 1},
                               num \in BOOLEAN}]

ValidateInit ==
    /\ ret \in {[op |-> "call", event |-> e, outcome |-> "", msg |-> "", logged |-> FALSE] :
                  e \in EventsToValidate}
    /\ outputs = LoadedOutputs(EmptyStorage)
    /\ storage = EmptyStorage
    /\ net = EmptyBag
    /\ guid = 0
    /\ timers = {}
    /\ options = [autoSubmitEvents |-> FALSE]
    /\ now = StartTime
    /\ hung = FALSE
    /\ recorded = 0
    /\ ticks = 0

Validate ==
    /\ ret.op = "call"
    /\ \E v \in {validateEvent(ret.event)} :
          ret' = [op |-> "validateEvent", event |-> ret.event,
                  outcome |-> v.outcome, msg |-> v.msg, logged |-> v.logged]
    /\ UNCHANGED <<outputs, storage, net, guid, timers, options, now, hung, recorded, ticks>>

ValidateNext == Validate

ValidateSpec == ValidateInit /\ [][ValidateNext]_vars

(***************************************************************************)
(* The throttle test of the gate on its own.  A client holds one batch     *)
(* that was dispatched at StartTime and answered with a failure that       *)
(* retained it: ThrottlingException (isThrottled set) or NetworkingError   *)
(* (isThrottled reset).  submitEvents is then called at later and later    *)
(* times with the same value of Math.random(), and ret holds what the gate *)
(* answered.  Only the gate is run: the client's state stays as it is.     *)
(***************************************************************************)
TestTimes == {0, 100, 1000, 10000, 30000, 42400, 42500, 59600, 59700, 59900, 60000, 60100, 120000}

AllDraws == 0..(RandDen - 1)

RetainedBatch == 1 :> <<[id |-> 1, size |-> EventBytes(NewEvent(Small))]>>

AfterRetainingFailure(throttled) ==
    [events |-> <<>>, batches |-> RetainedBatch, batchIndex |-> <<1>>,
     batchesInFlight |-> {}, isThrottled |-> throttled,
     lastSubmitTimestamp |-> StartTime, timeoutReference |-> 0]

ThrottleInit ==
    /\ outputs \in {AfterRetainingFailure(throttled) : throttled \in BOOLEAN}
    /\ storage = [EVENTS |-> <<>>, BATCHES |-> RetainedBatch, BATCH_INDEX |-> <<1>>]
    /\ net = EmptyBag
    /\ guid = 1
    /\ timers = {}
    /\ options = [autoSubmitEvents |-> FALSE]
    /\ now = StartTime
    /\ hung = FALSE
    /\ recorded = 1
    /\ ticks = 0
    /\ ret \in {[op |-> "call", u |-> u, warnMessage |-> ""] : u \in AllDraws}

\* The clock reaches a later test time and the gate is run there.
ThrottleTest ==
    /\ \E e \in TestTimes :
          /\ StartTime + e >= now
          /\ now' = StartTime + e
          /\ \E w \in {Gate(Context, StartTime + e, ret.u)} :
                ret' = [op |-> "gate", u |-> ret.u, warnMessage |-> w]
    /\ UNCHANGED <<outputs, storage, net, guid, timers, options, hung, recorded, ticks>>

ThrottleNext == ThrottleTest

ThrottleSpec == ThrottleInit /\ [][ThrottleNext]_vars

(***************************************************************************)
(* generateBatches on its own: it is called once on a client with an empty *)
(* Batch Store whose Event Queue is drawn from QueuesToCut, queues of one  *)
(* to MaxQueue events with sizes on both sides of batchSizeLimit and of    *)
(* the hard cap.  ret holds the queue the call found.                      *)
(***************************************************************************)
MaxQueue == 3

\* Two events of the first size, or one of each of the first two, make a
\* body of at most batchSizeLimit bytes, two of the second size do not; an
\* event of the last size alone makes a body of HardCap bytes, one of the
\* size before it a body one byte smaller.
EventSizes ==
    {(batchSizeLimit - 4) \div 2, (batchSizeLimit - 2) \div 2, batchSizeLimit + 1,
     HardCap - 3, HardCap - 2}

Numbered(sizes) == [i \in 1..Len(sizes) |-> [id |-> i, size |-> sizes[i]]]

QueuesToCut ==
    UNION {{Numbered(sizes) : sizes \in [1..n -> EventSizes]} : n \in 1..MaxQueue}

GenerateInit ==
    /\ outputs \in {[LoadedOutputs(EmptyStorage) EXCEPT !.events = q] : q \in QueuesToCut}
    /\ storage = [EmptyStorage EXCEPT !.EVENTS = outputs.events]
    /\ net = EmptyBag
    /\ guid = 0
    /\ timers = {}
    /\ options = [autoSubmitEvents |-> FALSE]
    /\ now = StartTime
    /\ hung = FALSE
    /\ recorded = Len(outputs.events)
    /\ ticks = 0
    /\ ret = [op |-> "call", queue |-> outputs.events]

Generate ==
    /\ ret.op = "call"
    /\ \E c \in {generateBatches(Context)} :
          /\ Install(c)
          /\ ret' = [op |-> "generateBatches", queue |-> outputs.events]
    /\ UNCHANGED <<options, now, recorded, ticks>>

GenerateNext == Generate

GenerateSpec == GenerateInit /\ [][GenerateNext]_vars

(***************************************************************************)
(* The session of the event createEvent builds, on its own.  A timestamp   *)
(* is an ISO string, written as the instant in ms it denotes; Undefined is *)
(* an absent one.  A JavaScript number is [nan, ms].  createEvent is       *)
(* called once with a session drawn from Sessions.                         *)
(***************************************************************************)
Number(ms) == [nan |-> FALSE, ms |-> ms]

NaN == [nan |-> TRUE, ms |-> 0]

\* object[name]: undefined when the object has no such property.
Property(object, name) == IF name \in DOMAIN object THEN object[name] ELSE Undefined

\* new Date(value).getTime()
DateGetTime(value) == IF value = Undefined THEN NaN ELSE Number(value)

\* a - b on numbers
Minus(a, b) == IF a.nan \/ b.nan THEN NaN ELSE Number(a.ms - b.ms)

\* The event of lines 291 to 305.
EventOfSession(input, session) ==
    LET event == [eventType |-> input.eventType,
                  session |-> [id |-> session.id, startTimestamp |-> session.startTimestamp],
                  version |-> "v2.0",
                  attributes |-> input.attributes,
                  metrics |-> input.metrics]
    IN IF session.stopTimestamp # Undefined
       THEN [event EXCEPT !.session =
                @ @@ [stopTimestamp |-> session.stopTimestamp,
                      duration |-> Minus(DateGetTime(Property(event, "stopTimestamp")),
                                         DateGetTime(Property(event, "startTimestamp")))]]
       ELSE event

SessionStarts == {StartTime + d : d \in {0, 1, 500, 1000, 2000, 10000, 30000, 60000}}

SessionLengths == {1, 999, 1000, 60000, 3600000}

Sessions ==
    [id : {1, 2}, startTimestamp : SessionStarts,
     stopTimestamp : {Undefined} \cup {s + d : s \in {StartTime, StartTime + 500}, d \in SessionLengths}]

CreateInit ==
    /\ ret \in {[op |-> "call", session |-> session] : session \in Sessions}
    /\ outputs = LoadedOutputs(EmptyStorage)
    /\ storage = EmptyStorage
    /\ net = EmptyBag
    /\ guid = 0
    /\ timers = {}
    /\ options = [autoSubmitEvents |-> FALSE]
    /\ now = StartTime
    /\ hung = FALSE
    /\ recorded = 0
    /\ ticks = 0

\* createEvent(eventType, session, attributes, metrics) with a valid event.
CreateEvent ==
    /\ ret.op = "call"
    /\ \E event \in {EventOfSession(Small, ret.session)}, v \in {createEvent(Small)} :
          ret' = [op |-> "createEvent", session |-> ret.session,
                  outcome |-> v.outcome, event |-> event]
    /\ UNCHANGED <<outputs, storage, net, guid, timers, options, now, hung, recorded, ticks>>

CreateNext == CreateEvent

CreateSpec == CreateInit /\ [][CreateNext]_vars

(***************************************************************************)
(* The client with three batches in flight.  Three small events were       *)
(* recorded a second apart, the first a second after construction, each    *)
(* followed by a submitEvents call that passed the gate, and every         *)
(* response so far was a NetworkingError that retained its batch: the last *)
(* call, at FlightTime, cut the third batch and dispatched all three.      *)
(* From there events are recorded, submitEvents is called, the timer       *)
(* fires, responses arrive in any order and time passes.                   *)
(***************************************************************************)
MaxFlightEvents == 4

FlightTime == StartTime + 3 * MinSubmitGap

SmallEvent(id) == [id |-> id, size |-> EventBytes(NewEvent(Small))]

ThreeBatches == [b \in 1..3 |-> <<SmallEvent(b)>>]

FlightInit ==
    /\ options \in [autoSubmitEvents : BOOLEAN]
    /\ outputs = [events |-> <<>>, batches |-> ThreeBatches, batchIndex |-> <<1, 2, 3>>,
                  batchesInFlight |-> {1, 2, 3}, isThrottled |-> FALSE,
                  lastSubmitTimestamp |-> FlightTime,
                  timeoutReference |-> IF options.autoSubmitEvents
                                       THEN FlightTime + autoSubmitInterval ELSE 0]
    /\ storage = [EVENTS |-> <<>>, BATCHES |-> ThreeBatches, BATCH_INDEX |-> <<1, 2, 3>>]
    /\ net = SetToBag({1, 2, 3})
    /\ guid = 3
    /\ timers = IF options.autoSubmitEvents THEN {FlightTime + autoSubmitInterval} ELSE {}
    /\ now = FlightTime
    /\ hung = FALSE
    /\ recorded = 3
    /\ ticks = 0
    /\ ret = [Ret("submitEvents", "", 0, TRUE,
                  [ret |-> <<1, 2, 3>>, passed |-> TRUE],
                  [log |-> <<>>, sent |-> <<1, 2, 3>>, called |-> <<>>])
              EXCEPT !.valid = FALSE]

FlightRecord == RecordEventUpTo(MaxFlightEvents)

\* What the endpoint answers: a success, which clears the batch, and the
\* two failures that retain it, with and without throttling.
FlightResponses ==
    {Success, Failure(400, "ThrottlingException"), Failure(400, "NetworkingError")}

FlightResponse ==
    \E batchId \in BagToSet(net), err \in FlightResponses : Respond(batchId, err)

FlightNext ==
    \/ FlightRecord
    \/ SubmitEvents
    \/ TimerFires
    \/ FlightResponse
    \/ Tick

FlightSpec == FlightInit /\ [][FlightNext]_vars

(***************************************************************************)
(* Vocabulary of the properties.                                           *)
(***************************************************************************)
InStore(b) == b \in DOMAIN outputs.batches /\ Contains(outputs.batchIndex, b)

InStoreNext(b) == b \in DOMAIN outputs'.batches /\ Contains(outputs'.batchIndex, b)

AbsentEverywhere(b) ==
    /\ b \notin DOMAIN outputs.batches
    /\ ~Contains(outputs.batchIndex, b)
    /\ b \notin DOMAIN storage.BATCHES
    /\ ~Contains(storage.BATCH_INDEX, b)

Logged(msg) == Contains(ret.log, msg)

\* The last step was a response of the given kind.
Failure400(codes) ==
    /\ ret.op = "response"
    /\ ret.result \in codes
    /\ ret.statusCode \in {Undefined, 400}

\* submitEvents was called by the application, the timer or recordEvent.
SubmitCall == ret.submitCalled /\ ret.op \in {"submitEvents", "timer", "recordEvent"}

SubmitCallNext == ret'.submitCalled /\ ret'.op \in {"submitEvents", "timer", "recordEvent"}

(***************************************************************************)
(* C1.  A failure whose status code is present and is not 400 leaves the   *)
(* batch in batches and in batchIndex and leaves isThrottled as it was.    *)
(* The handler clears the batch instead: clearBatch is only ever reset     *)
(* under `statusCode === undefined || statusCode === 400`.                 *)
(***************************************************************************)
C1_OtherStatusRetains ==
    [][(ret'.op = "response" /\ ret'.result # "success"
            /\ ret'.statusCode \notin {Undefined, 400})
         => (InStoreNext(ret'.batchId)
               /\ outputs'.isThrottled = outputs.isThrottled)]_vars

(***************************************************************************)
(* C2.  After a success, or a failure with no status code or status 400    *)
(* whose code is non-retryable, the batch is in neither batches nor        *)
(* batchIndex, in memory and in the persisted slots.                       *)
(***************************************************************************)
C2_TerminalClears ==
    (ret.op = "response" /\ (ret.result = "success" \/ Failure400(NON_RETRYABLE_EXCEPTIONS)))
        => AbsentEverywhere(ret.batchId)

C2_Witness ==
    /\ Failure400({"ValidationException"})
    /\ AbsentEverywhere(ret.batchId)
    /\ Len(outputs.batchIndex) > 0
    /\ ret.batchId < outputs.batchIndex[1]

(***************************************************************************)
(* C3.  After a failure with no status code or status 400 whose code is    *)
(* retryable, the batch is still in batches and batchIndex, and            *)
(* isThrottled holds exactly when the code is ThrottlingException.         *)
(***************************************************************************)
C3_RetryableRetains ==
    Failure400(Codes \ NON_RETRYABLE_EXCEPTIONS)
        => /\ InStore(ret.batchId)
           /\ outputs.isThrottled <=> (ret.result = "ThrottlingException")

C3_Witness ==
    /\ Failure400({"ThrottlingException"})
    /\ InStore(ret.batchId)
    /\ outputs.isThrottled

(***************************************************************************)
(* C4.  generateBatches ends and leaves the Event Queue empty, dropping    *)
(* events whose batch reaches the hard cap.  In the code a refused batch   *)
(* is never removed from the queue, so the loop does not end.              *)
(***************************************************************************)
C4_GenerateBatchesTerminates ==
    (ret.submitCalled /\ ret.passed) => (~hung /\ Len(outputs.events) = 0)

(***************************************************************************)
(* C5.  As claimed: when recordEvent returns for a valid event, the event  *)
(* is the last element of the Event Queue.                                 *)
(***************************************************************************)
C5_EventIsLastInQueue ==
    (ret.op = "recordEvent" /\ ret.valid /\ ~hung)
        => /\ Len(outputs.events) > 0
           /\ outputs.events[Len(outputs.events)].id = recorded

(***************************************************************************)
(* C5, amended.  When recordEvent returns for a valid event and the        *)
(* submitEvents call it makes at the size threshold did not pass the gate  *)
(* (or was not made), the queue is the previous queue with the event       *)
(* appended; when that call passed the gate, the queue is empty and the    *)
(* event is the last event of the newest batch.                            *)
(***************************************************************************)
LastBatchEvents == outputs'.batches[outputs'.batchIndex[Len(outputs'.batchIndex)]]

C5_AppendedOrBatched ==
    [][(ret'.op = "recordEvent" /\ ret'.valid /\ ~hung')
         => IF ret'.passed
            THEN /\ outputs'.events = <<>>
                 /\ Len(outputs'.batchIndex) > 0
                 /\ LastBatchEvents[Len(LastBatchEvents)].id = recorded'
            ELSE /\ Len(outputs'.events) = Len(outputs.events) + 1
                 /\ SubSeq(outputs'.events, 1, Len(outputs.events)) = outputs.events
                 /\ outputs'.events[Len(outputs'.events)].id = recorded'
                 /\ recorded' = recorded + 1]_vars

C5_Witness ==
    /\ ret.op = "recordEvent"
    /\ ret.valid
    /\ ~ret.passed
    /\ Len(outputs.events) = 2
    /\ outputs.events[1].id < outputs.events[2].id

(***************************************************************************)
(* C6.  recordEvent returns the event it recorded for every valid event,   *)
(* also when it calls submitEvents before returning.  The code returns     *)
(* outputs.events[index] after generateBatches has emptied the queue.      *)
(***************************************************************************)
C6_ReturnsRecordedEvent ==
    (ret.op = "recordEvent" /\ ret.valid /\ ~hung)
        => (ret.result = "event" /\ ret.event = recorded)

(***************************************************************************)
(* C7.  An invalid event is reported by logging, not raised: recordEvent   *)
(* returns null.  In the code validationError throws before it logs.       *)
(***************************************************************************)
C7_InvalidIsLoggedNotRaised ==
    (ret.op = "recordEvent" /\ ~ret.valid)
        => (ret.result = "null" /\ Len(ret.log) > 0)

(***************************************************************************)
(* C8.  While a batch is in flight, a submitEvents call returns an empty   *)
(* list, dispatches and generates no batch and leaves lastSubmitTimestamp  *)
(* unchanged.                                                              *)
(***************************************************************************)
C8_InFlightRefuses ==
    [][(SubmitCallNext /\ outputs.batchesInFlight # {})
         => /\ ret'.ids = <<>>
            /\ ret'.sent = <<>>
            /\ net' = net
            /\ outputs'.batches = outputs.batches
            /\ outputs'.batchIndex = outputs.batchIndex
            /\ guid' = guid
            /\ outputs'.lastSubmitTimestamp = outputs.lastSubmitTimestamp]_vars

C8_Witness ==
    /\ ret.op = "recordEvent"
    /\ ret.submitCalled
    /\ Logged("Prevented submission while batches are in flight")
    /\ outputs.batchesInFlight # {}
    /\ now - outputs.lastSubmitTimestamp >= MinSubmitGap

(***************************************************************************)
(* C9.  With the Event Queue and the Batch Store both empty, submitEvents  *)
(* refuses: it returns an empty list, dispatches nothing and leaves        *)
(* lastSubmitTimestamp alone.  The code tests batches.length, which a      *)
(* plain object does not have, so the gate never sees the store as empty.  *)
(***************************************************************************)
C9_EmptyRefuses ==
    [][(ret'.op \in {"submitEvents", "timer"}
            /\ Len(outputs.events) = 0 /\ DOMAIN outputs.batches = {})
         => /\ ret'.ids = <<>>
            /\ ret'.sent = <<>>
            /\ outputs'.lastSubmitTimestamp = outputs.lastSubmitTimestamp]_vars

(***************************************************************************)
(* C10.  A throttled submitEvents call that passes the gate dispatches     *)
(* exactly one batch, the first of batchIndex, and marks no other batch in *)
(* flight.  With an empty Batch Store the code passes the gate (C9) and    *)
(* dispatches none.                                                        *)
(***************************************************************************)
C10_ThrottledSendsOldest ==
    (SubmitCall /\ ret.passed /\ outputs.isThrottled /\ ~hung)
        => /\ Len(outputs.batchIndex) > 0
           /\ ret.sent = <<outputs.batchIndex[1]>>
           /\ outputs.batchesInFlight = {outputs.batchIndex[1]}

(***************************************************************************)
(* C11.  When submitEvents passes the gate while not throttled, on return  *)
(* the Event Queue is empty and every batch of batchIndex is in flight.    *)
(* When, at a call by the application or the timer, the Batch Store was    *)
(* empty and the queued events fit in one batch, exactly one batch is      *)
(* dispatched and it holds the queued events in their order.               *)
(***************************************************************************)
AllInFlightNext ==
    \A i \in 1..Len(outputs'.batchIndex) : outputs'.batchIndex[i] \in outputs'.batchesInFlight

FitsOneBatch ==
    /\ DOMAIN outputs.batches = {}
    /\ Len(outputs.events) > 0
    /\ getRequestBodySize(outputs.events) <= batchSizeLimit

C11_PassedSubmitsAll ==
    [][(SubmitCallNext /\ ret'.passed /\ ~outputs'.isThrottled /\ ~hung')
         => /\ outputs'.events = <<>>
            /\ AllInFlightNext
            /\ ret'.ids = ret'.sent
            /\ (ret'.op # "recordEvent" /\ FitsOneBatch)
                  => /\ Len(ret'.sent) = 1
                     /\ outputs'.batchIndex = ret'.sent
                     /\ DOMAIN outputs'.batches = {ret'.sent[1]}
                     /\ outputs'.batches[ret'.sent[1]] = outputs.events]_vars

C11_Witness ==
    /\ ret.op = "submitEvents"
    /\ ret.passed
    /\ ~outputs.isThrottled
    /\ Len(ret.sent) = 1
    /\ outputs.batchIndex = ret.sent
    /\ outputs.batchesInFlight = {ret.sent[1]}
    /\ Len(outputs.batches[ret.sent[1]]) = 2
    /\ outputs.batches[ret.sent[1]][1].id = 1
    /\ outputs.batches[ret.sent[1]][2].id = 2
    /\ outputs.events = <<>>

(***************************************************************************)
(* C12.  A response handled with isThrottled set before it and reset after *)
(* it dispatches, in batchIndex order, every batch of batchIndex that is   *)
(* not in flight, whatever else is in flight and whatever time has passed  *)
(* since lastSubmitTimestamp; any other response dispatches nothing.       *)
(***************************************************************************)
\* In flight once the handler has deleted its own batchId.
StillInFlight == outputs.batchesInFlight \ {ret'.batchId}

NotStillInFlight(b) == b \notin StillInFlight

C13_HandlerKeepsItsBatchId ==
    /\ BagToSet(net) = outputs.batchesInFlight
    /\ \A b \in BagToSet(net) : CopiesIn(b, net) = 1
    /\ ret.op = "response"
          => /\ ret.callbacks = <<ret.batchId>>
             /\ ret.batchId \in outputs.batchesInFlight => Contains(ret.sent, ret.batchId)

\* Two batches in flight; the response of the newer one arrives first and
\* is a failure that retains it.
C13_Witness ==
    /\ ret.op = "response"
    /\ ret.result = "NetworkingError"
    /\ ret.callbacks = <<ret.batchId>>
    /\ ret.batchId \notin outputs.batchesInFlight
    /\ InStore(ret.batchId)
    /\ \E b \in outputs.batchesInFlight : b < ret.batchId

(***************************************************************************)
(* C14.  Every element of the list submitEvents returns is the id of a     *)
(* batch the call dispatched: a key of batches, an element of batchIndex,  *)
(* in flight on return.  On the throttled path the code returns            *)
(* [submitBatchById(batchIndex[0])], which is [undefined] when batchIndex  *)
(* is empty.                                                               *)
(***************************************************************************)
C14_ReturnsDispatchedIds ==
    (SubmitCall /\ ~hung)
        => \A i \in 1..Len(ret.ids) :
              /\ ret.ids[i] # Undefined
              /\ Contains(ret.sent, ret.ids[i])
              /\ InStore(ret.ids[i])
              /\ ret.ids[i] \in outputs.batchesInFlight

(***************************************************************************)
(* C15.  The events of the batches, taken in batchIndex order, followed by *)
(* the events of the Event Queue are the accepted events whose batch has   *)
(* not been cleared, each once and in the order they were recorded: the    *)
(* sequence starts empty, recordEvent of a valid event appends that event  *)
(* to it, a response removes from it exactly the events of the batch it    *)
(* clears, and no other step (generateBatches inside submitEvents, a       *)
(* restart) changes it.                                                    *)
(***************************************************************************)
RECURSIVE BatchedEvents(_, _)
BatchedEvents(batches, index) ==
    IF index = <<>>
    THEN <<>>
    ELSE (IF Head(index) \in DOMAIN batches THEN batches[Head(index)] ELSE <<>>)
            \o BatchedEvents(batches, Tail(index))

Retained == BatchedEvents(outputs.batches, outputs.batchIndex) \o outputs.events

RetainedNext == BatchedEvents(outputs'.batches, outputs'.batchIndex) \o outputs'.events

\* The events of the batch the response cleared, none when it retained it.
ClearedByResponse ==
    IF ret'.batchId \in DOMAIN outputs.batches /\ ret'.batchId \notin DOMAIN outputs'.batches
    THEN outputs.batches[ret'.batchId]
    ELSE <<>>

NotCleared(e) == ~Contains(ClearedByResponse, e)

\* evs are events among the first n recorded, in the order recorded.
InRecordedOrder(evs, n) ==
    /\ \A i \in 1..Len(evs) : evs[i].id \in 1..n
    /\ \A i, j \in 1..Len(evs) : i < j => evs[i].id < evs[j].id

C15_EventsConserved ==
    /\ []InRecordedOrder(Retained, recorded)
    /\ [][\A before \in {Retained}, after \in {RetainedNext} :
            IF ret'.op = "recordEvent" /\ ret'.valid
            THEN /\ Len(after) = Len(before) + 1
                 /\ SubSeq(after, 1, Len(before)) = before
                 /\ after[Len(after)].id = recorded'
                 /\ recorded' = recorded + 1
            ELSE IF ret'.op = "response"
            THEN after = SelectSeq(before, NotCleared)
            ELSE after = before]_vars

\* generateBatches has cut the queue into two batches.
C15_Witness ==
    /\ SubmitCall
    /\ ret.passed
    /\ Len(outputs.batchIndex) = 2
    /\ Len(outputs.batches[outputs.batchIndex[1]]) = 1
    /\ outputs.batches[outputs.batchIndex[1]][1].id = 1
    /\ outputs.batches[outputs.batchIndex[2]][1].id = 2
    /\ outputs.events = <<>>

(***************************************************************************)
(* C16.  After every operation the persisted slots EVENTS, BATCHES and     *)
(* BATCH_INDEX equal the in-memory queue, batches and batchIndex.  A       *)
(* restart rebuilds these three from the slots with batchesInFlight empty: *)
(* without auto-submit they are the values the dead process had and        *)
(* nothing is in flight; with auto-submit the constructor goes on to call  *)
(* submitEvents, which leaves the retained events as they were and         *)
(* dispatches every batch of the store again, those that were in flight    *)
(* included.                                                               *)
(***************************************************************************)
SlotsEqualMemory ==
    /\ storage.EVENTS = outputs.events
    /\ storage.BATCHES = outputs.batches
    /\ storage.BATCH_INDEX = outputs.batchIndex

C16_PersistedEqualsMemory ==
    [][/\ SlotsEqualMemory'
       /\ ret'.op = "restart"
             => /\ RetainedNext = Retained
                /\ \A b \in outputs.batchesInFlight : InStoreNext(b)
                /\ IF options.autoSubmitEvents
                   THEN hung' \/ /\ outputs'.batchesInFlight = DOMAIN outputs'.batches
                                 /\ \A b \in DOMAIN outputs.batches : Contains(ret'.sent, b)
                   ELSE /\ outputs'.events = outputs.events
                        /\ outputs'.batches = outputs.batches
                        /\ outputs'.batchIndex = outputs.batchIndex
                        /\ outputs'.batchesInFlight = {}
                        /\ ret'.sent = <<>>]_vars

\* The process died with a batch in flight and events queued; the new
\* process has dispatched that batch again.
C16_Witness ==
    /\ ret.op = "restart"
    /\ Len(outputs.batchIndex) = 2
    /\ ret.sent = outputs.batchIndex
    /\ net = SetToBag(outputs.batchesInFlight)
    /\ guid = 2
    /\ SlotsEqualMemory

(***************************************************************************)
(* C17.  With auto-submit enabled, when from some time on every response   *)
(* is a success, the Event Queue, the Batch Store and batchesInFlight are  *)
(* in the end empty for good and isThrottled is reset.  Two code bugs stop *)
(* the recovery: an event no batch can hold leaves the thread in the loop  *)
(* of generateBatches (C4), and a failure with a 5xx status clears the     *)
(* last batch and leaves isThrottled set with nothing left to retry (C1).  *)
(***************************************************************************)
Drained ==
    /\ outputs.events = <<>>
    /\ DOMAIN outputs.batches = {}
    /\ outputs.batchIndex = <<>>
    /\ outputs.batchesInFlight = {}
    /\ ~outputs.isThrottled

SuccessOnly == ret'.op = "response" => ret'.result = "success"

C17_RecoversByItself == <>[][SuccessOnly]_vars => <>[]Drained

(***************************************************************************)
(* C18.  validateEvent returns the event exactly when the version is v2.0, *)
(* eventType is a string, every metric is a number, attributes and metrics *)
(* together are at most 40, every name has 1 to 50 characters and every    *)
(* attribute value at most 200; otherwise it reports the first check that  *)
(* fails, in that order, and returns null.  In the code the report is made *)
(* by validationError, which throws before it logs (C7).                   *)
(***************************************************************************)
NamesOk(s) == \A i \in 1..Len(s) : s[i].nameLen >= 1 /\ s[i].nameLen <= MaxNameLen

Acceptable(e) ==
    /\ e.version = "v2.0"
    /\ e.eventType.str
    /\ \A i \in 1..Len(e.metrics) : e.metrics[i].num
    /\ Len(e.attributes) + Len(e.metrics) <= MaxCount
    /\ NamesOk(e.attributes)
    /\ NamesOk(e.metrics)
    /\ \A i \in 1..Len(e.attributes) : e.attributes[i].valLen <= MaxValueLen

FirstFailingCheck(e) ==
    IF e.version # "v2.0" THEN "Event must have version v2.0"
    ELSE IF ~e.eventType.str THEN "Event Type must be a string"
    ELSE IF \E i \in 1..Len(e.metrics) : ~e.metrics[i].num THEN "Event Metrics must be numeric"
    ELSE IF Len(e.attributes) + Len(e.metrics) > MaxCount
    THEN "Event Metric and Attribute Count cannot exceed 40"
    ELSE IF ~NamesOk(e.attributes) THEN "Event Attribute names must be 1-50 characters"
    ELSE IF ~NamesOk(e.metrics) THEN "Event Metric names must be 1-50 characters"
    ELSE "Event Attribute values cannot be longer than 200 characters"

C18_AcceptsOrReportsFirst ==
    ret.op = "validateEvent"
        => IF Acceptable(ret.event)
           THEN ret.outcome = "event"
           ELSE /\ ret.outcome = "null"
                /\ ret.logged
                /\ ret.msg = FirstFailingCheck(ret.event)

(***************************************************************************)
(* C19.  A submitEvents call made less than 1000 ms after                  *)
(* lastSubmitTimestamp returns an empty list, generates and dispatches     *)
(* nothing and leaves lastSubmitTimestamp unchanged; a call that passes    *)
(* the gate and returns sets lastSubmitTimestamp to the current time and a *)
(* call that is refused leaves it alone; so a call that passes the gate    *)
(* comes at least 1000 ms after the previous one of the same process.      *)
(* lastSubmitTimestamp is not persisted: the call the constructor makes    *)
(* after a restart finds it absent.                                        *)
(***************************************************************************)
WithinASecond ==
    /\ outputs.lastSubmitTimestamp # Undefined
    /\ now - outputs.lastSubmitTimestamp < MinSubmitGap

C19_OncePerSecond ==
    [][ret'.submitCalled
         => /\ IF ret'.passed
               THEN hung' \/ outputs'.lastSubmitTimestamp = now
               ELSE outputs'.lastSubmitTimestamp = outputs.lastSubmitTimestamp
            /\ (SubmitCallNext /\ WithinASecond)
                  => /\ ~ret'.passed
                     /\ ret'.ids = <<>>
                     /\ ret'.sent = <<>>
                     /\ net' = net
                     /\ outputs'.batches = outputs.batches
                     /\ outputs'.batchIndex = outputs.batchIndex
                     /\ guid' = guid
            /\ (SubmitCallNext /\ ret'.passed /\ outputs.lastSubmitTimestamp # Undefined)
                  => now - outputs.lastSubmitTimestamp >= MinSubmitGap]_vars

\* Half a second after a call that passed the gate, with events queued,
\* nothing in flight and no throttling, a call is refused.
C19_Witness ==
    /\ ret.op = "submitEvents"
    /\ ~ret.passed
    /\ Logged("Prevented multiple submissions in under a second")
    /\ now - outputs.lastSubmitTimestamp = 500
    /\ Len(outputs.events) > 0
    /\ outputs.batchesInFlight = {}
    /\ ~outputs.isThrottled

(***************************************************************************)
(* C20.  With auto-submit enabled exactly one timeout is pending in every  *)
(* state, the one armed last, and after every submitEvents call, passed or *)
(* refused, it is due autoSubmitInterval after the call; with auto-submit  *)
(* disabled no timeout is ever armed.                                      *)
(***************************************************************************)
C20_OneTimerPending ==
    IF options.autoSubmitEvents
    THEN /\ timers = {outputs.timeoutReference}
         /\ ret.submitCalled => timers = {now + autoSubmitInterval}
    ELSE /\ timers = {}
         /\ outputs.timeoutReference = 0

\* The timer has fired, the call it made was refused, and the next timer
\* is pending.
C20_Witness ==
    /\ options.autoSubmitEvents
    /\ ret.op = "timer"
    /\ ~ret.passed
    /\ now > StartTime + autoSubmitInterval
    /\ timers = {now + autoSubmitInterval}

(***************************************************************************)
(* C21.  While throttled, the throttle test lets the call proceed exactly  *)
(* when the draw u satisfies u <= min(1, elapsed^2 / 60000^2), elapsed     *)
(* being now - lastSubmitTimestamp: it never refuses at 60000 ms or more,  *)
(* a draw that proceeds at one time proceeds at every later time, and at   *)
(* 59700 ms the draw 0.99 proceeds (the draws that proceed are those up to *)
(* elapsed^2 / 60000^2, so their probability is at least 0.99); when not   *)
(* throttled the test never refuses.                                       *)
(***************************************************************************)
ThrottleRefusal == "Prevented submission while throttled"

\* u / RandDen <= min(1, (elapsed / 60000)^2), elapsed a multiple of 100 ms.
WithinRamp(elapsed, u) ==
    LET q == elapsed \div 100
        ramp == IF q * q > ThrottleWindow * ThrottleWindow
                THEN ThrottleWindow * ThrottleWindow ELSE q * q
    IN u * ThrottleWindow * ThrottleWindow <= RandDen * ramp

C21_ThrottleRamp ==
    [][\A elapsed \in {now' - outputs.lastSubmitTimestamp} :
         /\ ret'.op = "gate"
         /\ IF outputs.isThrottled
            THEN (ret'.warnMessage # ThrottleRefusal) <=> WithinRamp(elapsed, ret'.u)
            ELSE ret'.warnMessage # ThrottleRefusal
         /\ elapsed >= 100 * ThrottleWindow => ret'.warnMessage # ThrottleRefusal
         /\ (elapsed = 59700 /\ 100 * ret'.u <= 99 * RandDen)
               => ret'.warnMessage # ThrottleRefusal
         /\ (ret.op = "gate" /\ ret.warnMessage # ThrottleRefusal)
               => ret'.warnMessage # ThrottleRefusal]_vars

\* Throttled, 59700 ms after lastSubmitTimestamp the draw 0.99 proceeds;
\* it was refused 100 ms earlier.
C21_Witness ==
    /\ outputs.isThrottled
    /\ ret.op = "gate"
    /\ ret.u = 99
    /\ now - outputs.lastSubmitTimestamp = 59700
    /\ ret.warnMessage # ThrottleRefusal

(***************************************************************************)
(* C22.  Every batch generateBatches creates is the longest prefix of the  *)
(* Event Queue, as it is when the batch is cut, whose serialized size is   *)
(* at most batchSizeLimit, or the first event alone when no prefix fits;   *)
(* every batch in the Batch Store has a serialized size below the hard     *)
(* cap, and of at most batchSizeLimit unless it holds a single event.      *)
(***************************************************************************)
Fits(evs, k) == getRequestBodySize(SubSeq(evs, 1, k)) <= batchSizeLimit

\* Length of the longest prefix that fits, 1 when none does.
LongestFit(evs) ==
    IF \E k \in 1..Len(evs) : Fits(evs, k)
    THEN CHOOSE k \in 1..Len(evs) : Fits(evs, k) /\ \A j \in (k + 1)..Len(evs) : ~Fits(evs, j)
    ELSE 1

\* The batches index[i..] are cut from queue one after the other, each as
\* claimed, and rest is what they leave of it.
RECURSIVE CutAsClaimed(_, _, _, _, _)
CutAsClaimed(queue, batches, index, i, rest) ==
    IF i > Len(index)
    THEN queue = rest
    ELSE /\ queue # <<>>
         /\ index[i] \in DOMAIN batches
         /\ batches[index[i]] = SubSeq(queue, 1, LongestFit(queue))
         /\ CutAsClaimed(SubSeq(queue, LongestFit(queue) + 1, Len(queue)),
                         batches, index, i + 1, rest)

StoreWithinLimits ==
    \A b \in DOMAIN outputs.batches :
       /\ getRequestBodySize(outputs.batches[b]) < HardCap
       /\ Len(outputs.batches[b]) > 1
             => getRequestBodySize(outputs.batches[b]) <= batchSizeLimit

C22_BatchIsLongestFittingPrefix ==
    ret.op = "generateBatches"
        => /\ CutAsClaimed(ret.queue, outputs.batches, outputs.batchIndex, 1, outputs.events)
           /\ DOMAIN outputs.batches = {outputs.batchIndex[i] : i \in 1..Len(outputs.batchIndex)}
           /\ StoreWithinLimits
           /\ ~hung => outputs.events = <<>>

\* A queue of three events: the first two make a body of exactly
\* batchSizeLimit bytes and are one batch, the third is larger than
\* batchSizeLimit and is a batch by itself.
C22_Witness ==
    /\ ret.op = "generateBatches"
    /\ Len(ret.queue) = 3
    /\ outputs.batchIndex = <<1, 2>>
    /\ Len(outputs.batches[1]) = 2
    /\ getRequestBodySize(outputs.batches[1]) = batchSizeLimit
    /\ Len(outputs.batches[2]) = 1
    /\ getRequestBodySize(outputs.batches[2]) > batchSizeLimit
    /\ outputs.events = <<>>

(***************************************************************************)
(* C23.  The event created from a session that has a stopTimestamp has     *)
(* session.duration = session.stopTimestamp - session.startTimestamp in    *)
(* ms; the event created from a session without stopTimestamp has neither  *)
(* stopTimestamp nor duration.  The code computes the duration from        *)
(* event.stopTimestamp and event.startTimestamp, which the event does not  *)
(* have (they are properties of event.session): the result is NaN.         *)
(***************************************************************************)
C23_DurationIsStopMinusStart ==
    ret.op = "createEvent"
        => /\ ret.outcome = "event"
           /\ IF ret.session.stopTimestamp # Undefined
              THEN /\ DOMAIN ret.event.session = {"id", "startTimestamp", "stopTimestamp", "duration"}
                   /\ ret.event.session.stopTimestamp = ret.session.stopTimestamp
                   /\ ret.event.session.duration
                         = Number(ret.session.stopTimestamp - ret.session.startTimestamp)
              ELSE DOMAIN ret.event.session = {"id", "startTimestamp"}

(***************************************************************************)
(* C24.  In every state the ids of batchIndex are the keys of batches and  *)
(* no id occurs twice in batchIndex.  A response either leaves batches and *)
(* batchIndex as they were or clears its batch: exactly that id leaves     *)
(* both, the other batches are as they were and the other ids keep their   *)
(* order in batchIndex, wherever in batchIndex the id was.                 *)
(***************************************************************************)
IndexIds == {outputs.batchIndex[i] : i \in 1..Len(outputs.batchIndex)}

IndexMatchesStore ==
    /\ IndexIds = DOMAIN outputs.batches
    /\ \A i, j \in 1..Len(outputs.batchIndex) :
          outputs.batchIndex[i] = outputs.batchIndex[j] => i = j

NotTheAnswered(b) == b # ret'.batchId

C24_IndexMatchesStore ==
    /\ []IndexMatchesStore
    /\ [][ret'.op = "response"
            => \/ /\ outputs'.batchIndex = outputs.batchIndex
                  /\ outputs'.batches = outputs.batches
               \/ /\ InStore(ret'.batchId)
                  /\ outputs'.batchIndex = SelectSeq(outputs.batchIndex, NotTheAnswered)
                  /\ DOMAIN outputs'.batches = DOMAIN outputs.batches \ {ret'.batchId}
                  /\ \A b \in DOMAIN outputs'.batches :
                        outputs'.batches[b] = outputs.batches[b]]_vars

\* Two batches were in flight; the response of the second arrived first
\* and cleared it, and the first is still in the store and in flight.
C24_Witness ==
    /\ ret.op = "response"
    /\ ret.result = "success"
    /\ ret.batchId \notin IndexIds
    /\ Len(outputs.batchIndex) = 1
    /\ outputs.batchIndex[1] < ret.batchId
    /\ outputs.batchIndex[1] \in outputs.batchesInFlight
    /\ DOMAIN outputs.batches = {outputs.batchIndex[1]}

(***************************************************************************)
(* C25.  Whatever the interleaving of recordEvent, submitEvents, timer     *)
(* firings and responses (with the flush a response makes when it ends the *)
(* throttling): no step dispatches a batch that is in flight, the request  *)
(* a response answers not counted, nor one batch twice; every batch has at *)
(* most one pending request; and every id of batchesInFlight is an element *)
(* of batchIndex.                                                          *)
(***************************************************************************)
InFlightInIndex == outputs.batchesInFlight \subseteq IndexIds

OneRequestEach == \A b \in BagToSet(net) : CopiesIn(b, net) = 1

C25_NoDispatchWhileInFlight ==
    /\ [](InFlightInIndex /\ OneRequestEach)
    /\ [][ret'.op \in {"recordEvent", "submitEvents", "timer", "response"}
            => \A pending \in {IF ret'.op = "response"
                               THEN outputs.batchesInFlight \ {ret'.batchId}
                               ELSE outputs.batchesInFlight} :
                  /\ \A i \in 1..Len(ret'.sent) : ret'.sent[i] \notin pending
                  /\ \A i, j \in 1..Len(ret'.sent) : ret'.sent[i] = ret'.sent[j] => i = j
                  /\ outputs'.batchesInFlight
                        = pending \cup {ret'.sent[i] : i \in 1..Len(ret'.sent)}]_vars

\* A response ends the throttling while another batch is in flight: its
\* flush dispatches the two batches that are not in flight, the answered
\* one included, and not the third.
C25_Witness ==
    /\ ret.op = "response"
    /\ Logged("Was throttled flushing remaining batches")
    /\ Len(outputs.batchIndex) = 3
    /\ Len(ret.sent) = 2
    /\ Contains(ret.sent, ret.batchId)
    /\ outputs.batchesInFlight = IndexIds
    /\ OneRequestEach

=============================================================================
